---- MODULE Spec2Model ----
(***************************************************************************)
(* Model of the Portfolio Collection Bot (src/main.py): the conversation   *)
(* handlers of PortfolioBot, the per-user store user_data, and the         *)
(* retrying writer save_to_sheet.                                          *)
(*                                                                         *)
(* A text is a sequence of one-character strings, so that str.lower() and  *)
(* the command filter are computed on the characters.                      *)
(***************************************************************************)
EXTENDS Integers, Sequences, FiniteSets, TLC

VARIABLES
    MAX_RETRIES,    \* main.py:27, read once from the environment
    pc,             \* position of the single event-loop thread
    update,         \* the update most recently delivered to the application
    conversations,  \* ConversationHandler's state per user (key absent = no conversation)
    user_data,      \* main.py:37
    last_reply,     \* the last reply_text sent to each user
    sheet,          \* rows of sheet1 of "Portfolio Submissions"
    clock,          \* wall clock, in seconds since polling began
    retry_count,    \* save_to_sheet's local, main.py:183
    timestamp,      \* save_to_sheet's local, main.py:187
    attempts,       \* history: iterations of the while loop begun by the current call
    appended,       \* history: rows appended by the current call, with the attempt
    entered,        \* history: free-text answers stored in the user's conversation
    yes_count,      \* history: affirmative repeat answers in the user's conversation
    save_calls,     \* history: calls of save_to_sheet, in total
    conv_saves,     \* history: calls of save_to_sheet since the user's last start
    main_retry_count,   \* retry_count of the loop of __main__, main.py:310
    init_retry_count,   \* retry_count of initialize_google_sheets, main.py:50
    spreadsheet_exists, \* a spreadsheet named "Portfolio Submissions" exists
    created,            \* history: initialize_google_sheets created the spreadsheet
    init_attempts       \* history: iterations of the loop of initialize_google_sheets

\* the state of the startup
bootvars == <<main_retry_count, init_retry_count, spreadsheet_exists, created,
              init_attempts>>

vars == <<MAX_RETRIES, pc, update, conversations, user_data, last_reply,
          sheet, clock, retry_count, timestamp, attempts, appended, entered,
          yes_count, save_calls, conv_saves, bootvars>>

(***************************************************************************)
(* Bounds of the model.                                                    *)
(***************************************************************************)
MaxProjects == 2        \* affirmative answers are sent while fewer projects are stored
MaxRetriesCfg == 2      \* MAX_RETRIES is configured in 0..MaxRetriesCfg
AppendSeconds == 1      \* seconds one call of append_row takes

Users == {"u1", "u2"}

(***************************************************************************)
(* Program constants.                                                      *)
(***************************************************************************)
RETRY_DELAY == 10

NAME == 0
CONTACT == 1
INTRODUCTION == 2
PROJECT_NAME == 3
PROJECT_LINK == 4
PROJECT_DOC == 5
ANOTHER_PROJECT == 6
END == -1

(***************************************************************************)
(* Python dict operations.                                                 *)
(***************************************************************************)
Put(d, k, v) == [x \in (DOMAIN d) \cup {k} |-> IF x = k THEN v ELSE d[x]]

Pop(d, k) == [x \in (DOMAIN d) \ {k} |-> d[x]]

(***************************************************************************)
(* Texts.                                                                  *)
(***************************************************************************)
Upper == <<"A", "B", "C", "D", "E", "F", "G", "H", "I", "J", "K", "L", "M",
           "N", "O", "P", "Q", "R", "S", "T", "U", "V", "W", "X", "Y", "Z">>

Lower == <<"a", "b", "c", "d", "e", "f", "g", "h", "i", "j", "k", "l", "m",
           "n", "o", "p", "q", "r", "s", "t", "u", "v", "w", "x", "y", "z">>

\* the lower-case letter of each upper-case letter
LowerOf ==
    [c \in {Upper[i] : i \in 1..Len(Upper)} |->
        Lower[CHOOSE i \in 1..Len(Upper) : Upper[i] = c]]

lower_char(c) == IF c \in DOMAIN LowerOf THEN LowerOf[c] ELSE c

lower(s) == [i \in 1..Len(s) |-> lower_char(s[i])]

Digit == <<"0", "1", "2", "3", "4", "5", "6", "7", "8", "9">>

RECURSIVE Decimal(_)
Decimal(n) ==
    IF n < 10 THEN <<Digit[n + 1]>> ELSE Decimal(n \div 10) \o <<Digit[(n % 10) + 1]>>

Pad2(n) == IF n < 10 THEN <<"0">> \o Decimal(n) ELSE Decimal(n)

\* datetime.strftime('%Y-%m-%d %H:%M:%S'): the time-of-day part of the clock
strftime(t) ==
    Pad2((t \div 3600) % 24) \o <<":">> \o Pad2((t \div 60) % 60) \o <<":">> \o Pad2(t % 60)

StartCmd == <<"/", "s", "t", "a", "r", "t">>
CancelCmd == <<"/", "c", "a", "n", "c", "e", "l">>

\* filters.COMMAND: the message starts with a bot command
IsCommand(text) == Len(text) > 0 /\ text[1] = "/"

\* CommandHandler(name, ...)
IsCommandNamed(text, name) == IsCommand(text) /\ lower(Tail(text)) = name

(***************************************************************************)
(* Inputs: the messages the users send.                                    *)
(***************************************************************************)
Letter(u) == IF u = "u1" THEN "a" ELSE "b"

\* a free-text answer: the user's letter and the number of the answer
AnswerTexts(u) == {<<Letter(u)>> \o Decimal(Len(entered[u]) + 1)}

Affirmatives == {<<"y", "e", "s">>, <<"Y", "E", "S">>, <<"Y", "e", "s">>}

Negatives == {<<"n", "o">>, <<"y", "e", "s", "!">>}

\* One record is saved in a run: a later call of save_to_sheet would differ
\* only in the rows already in the sheet, which no code reads.
RepeatTexts(u) ==
    (IF u \in DOMAIN user_data /\ Len(user_data[u].projects) < MaxProjects
     THEN Affirmatives ELSE {})
    \cup (IF save_calls = 0 THEN Negatives ELSE {})

NoUpdate == [user_id |-> "", text |-> <<>>]

\* what user u may send next: a command, or a text answering the last prompt
Inputs(u) ==
    {StartCmd, CancelCmd}
    \cup (IF u \in DOMAIN conversations
         THEN IF conversations[u] = ANOTHER_PROJECT THEN RepeatTexts(u) ELSE AnswerTexts(u)
         ELSE {})

headers == <<<<"Timestamp">>, <<"Name">>, <<"Contact">>, <<"Introduction">>,
             <<"Project Name">>, <<"Project Link">>, <<"Project Doc">>>>

Init ==
    /\ MAX_RETRIES \in 0..MaxRetriesCfg
    /\ pc = "main"
    /\ update = NoUpdate
    /\ conversations = <<>>
    /\ user_data = <<>>
    /\ last_reply = [u \in Users |-> ""]
    /\ sheet = <<>>
    /\ clock = 0
    /\ retry_count = 0
    /\ timestamp = <<>>
    /\ attempts = 0
    /\ appended = <<>>
    /\ entered = [u \in Users |-> <<>>]
    /\ yes_count = [u \in Users |-> 0]
    /\ save_calls = 0
    /\ conv_saves = [u \in Users |-> 0]
    /\ main_retry_count = 0
    /\ init_retry_count = 0
    /\ spreadsheet_exists = FALSE
    /\ created = FALSE
    /\ init_attempts = 0

(***************************************************************************)
(* Startup: the loop of __main__ constructs the bot, which opens or        *)
(* creates the sheet, and runs it.                                         *)
(***************************************************************************)
\* what the startup leaves alone
BootFrame ==
    UNCHANGED <<MAX_RETRIES, update, conversations, user_data, last_reply, clock,
                retry_count, timestamp, attempts, appended, entered, yes_count,
                save_calls, conv_saves>>

\* the first iteration of __main__ in which initialize_google_sheets meets no
\* failure: the spreadsheet is created with its header row and the bot polls
Main ==
    /\ pc = "main"
    /\ main_retry_count < MAX_RETRIES
    /\ sheet' = <<headers>>
    /\ spreadsheet_exists' = TRUE
    /\ created' = TRUE
    /\ init_attempts' = init_attempts + 1
    /\ pc' = "polling"
    /\ UNCHANGED <<main_retry_count, init_retry_count>>
    /\ BootFrame

MainExit ==
    /\ pc = "main"
    /\ ~(main_retry_count < MAX_RETRIES)
    /\ pc' = "exit"
    /\ UNCHANGED <<sheet, bootvars>>
    /\ BootFrame

\* __main__, main.py:311-314: PortfolioBot(...) calls initialize_google_sheets
Construct ==
    /\ pc = "main"
    /\ main_retry_count < MAX_RETRIES
    /\ pc' = "init"
    /\ init_retry_count' = 0
    /\ UNCHANGED <<sheet, main_retry_count, spreadsheet_exists, created, init_attempts>>
    /\ BootFrame

\* initialize_google_sheets, main.py:57-58 and 67-68: the spreadsheet is
\* opened; __init__ goes on to initialize_bot and __main__ to bot.run()
InitOpens ==
    /\ pc = "init"
    /\ init_retry_count < MAX_RETRIES
    /\ spreadsheet_exists
    /\ init_attempts' = init_attempts + 1
    /\ pc' = "polling"
    /\ UNCHANGED <<sheet, main_retry_count, init_retry_count, spreadsheet_exists,
                   created>>
    /\ BootFrame

\* initialize_google_sheets, main.py:59-68: open raised, the spreadsheet is
\* created and the header row appended
InitCreates ==
    /\ pc = "init"
    /\ init_retry_count < MAX_RETRIES
    /\ ~spreadsheet_exists
    /\ spreadsheet_exists' = TRUE
    /\ created' = TRUE
    /\ sheet' = <<headers>>
    /\ init_attempts' = init_attempts + 1
    /\ pc' = "polling"
    /\ UNCHANGED <<main_retry_count, init_retry_count>>
    /\ BootFrame

\* the except clause of initialize_google_sheets, main.py:69-75, and, when it
\* raises, the except clause of __main__, main.py:316-324
init_failed ==
    /\ init_attempts' = init_attempts + 1
    /\ init_retry_count' = init_retry_count + 1
    /\ IF init_retry_count + 1 < MAX_RETRIES
       THEN pc' = "init" /\ UNCHANGED main_retry_count
       ELSE /\ main_retry_count' = main_retry_count + 1
            /\ pc' = IF main_retry_count + 1 < MAX_RETRIES THEN "main" ELSE "fatal"

\* an iteration of initialize_google_sheets that fails before anything is
\* created: the credentials, authorize, or open and then create raise
InitFailsUnreachable ==
    /\ pc = "init"
    /\ init_retry_count < MAX_RETRIES
    /\ init_failed
    /\ UNCHANGED <<sheet, spreadsheet_exists, created>>
    /\ BootFrame

\* an iteration in which create returns and append_row(headers) raises
InitFailsAfterCreate ==
    /\ pc = "init"
    /\ init_retry_count < MAX_RETRIES
    /\ ~spreadsheet_exists
    /\ spreadsheet_exists' = TRUE
    /\ created' = TRUE
    /\ sheet' = <<>>
    /\ init_failed
    /\ BootFrame

(***************************************************************************)
(* ConversationHandler: which handler an update reaches.                   *)
(***************************************************************************)
InConversation(u) == u \in DOMAIN conversations

\* mutant: the state handlers filter on filters.TEXT alone, so that a command
\* sent inside a conversation reaches the handler of the state
check_update_any_text(u, text) ==
    IF ~InConversation(u)
    THEN IF IsCommandNamed(text, Tail(StartCmd)) THEN "start" ELSE "none"
    ELSE "state"

\* entry_points are tried only outside a conversation (allow_reentry is not
\* set); inside one, the state's handlers and then the fallbacks.
check_update(u, text) ==
    IF ~InConversation(u)
    THEN IF IsCommandNamed(text, Tail(StartCmd)) THEN "start" ELSE "none"
    ELSE IF ~IsCommand(text) THEN "state"
         ELSE IF IsCommandNamed(text, Tail(CancelCmd)) THEN "cancel" ELSE "none"

\* the handler's return value becomes the conversation state; END removes it
Transition(u, s) ==
    conversations' = IF s = END THEN Pop(conversations, u) ELSE Put(conversations, u, s)

reply_text(u, msg) == last_reply' = [last_reply EXCEPT ![u] = msg]

\* the handler raised (KeyError, IndexError): the conversation state is kept
Raised ==
    UNCHANGED <<MAX_RETRIES, pc, conversations, user_data,
                last_reply, sheet, clock, retry_count, timestamp, attempts, appended,
                entered, yes_count, save_calls, conv_saves, bootvars>>

(***************************************************************************)
(* The handlers of PortfolioBot.  Each takes the sender and the text of    *)
(* the update.                                                             *)
(***************************************************************************)
\* what a conversation handler leaves alone
HandlerFrame ==
    UNCHANGED <<MAX_RETRIES, pc, sheet, clock, retry_count, timestamp, attempts,
                appended, save_calls, bootvars>>

start(u) ==
    /\ user_data' = Put(user_data, u, [projects |-> <<>>])
    /\ reply_text(u, "Please enter your full name:")
    /\ Transition(u, NAME)
    /\ entered' = [entered EXCEPT ![u] = <<>>]
    /\ yes_count' = [yes_count EXCEPT ![u] = 0]
    /\ conv_saves' = [conv_saves EXCEPT ![u] = 0]
    /\ HandlerFrame

\* a handler that stores the answer in `data`, prompts and returns `next`
Answered(u, text, data, msg, next) ==
    /\ user_data' = Put(user_data, u, data)
    /\ reply_text(u, msg)
    /\ Transition(u, next)
    /\ entered' = [entered EXCEPT ![u] = Append(@, text)]
    /\ UNCHANGED <<yes_count, conv_saves>>
    /\ HandlerFrame

get_name(u, text) ==
    IF u \in DOMAIN user_data
    THEN Answered(u, text, Put(user_data[u], "name", text),
                  "Please enter your contact information (email or phone number):",
                  CONTACT)
    ELSE Raised

get_contact(u, text) ==
    IF u \in DOMAIN user_data
    THEN Answered(u, text, Put(user_data[u], "contact", text),
                  "Please provide a brief introduction about yourself:",
                  INTRODUCTION)
    ELSE Raised

get_introduction(u, text) ==
    IF u \in DOMAIN user_data
    THEN Answered(u, text, Put(user_data[u], "introduction", text),
                  "Please enter the name of your project:",
                  PROJECT_NAME)
    ELSE Raised

\* mutant: the new entry is put in front of the list
append_project_at_front(data, text) ==
    Put(data, "projects", <<[name |-> text]>> \o data.projects)

\* mutant: the new entry replaces the list
append_project_replacing(data, text) ==
    Put(data, "projects", <<[name |-> text]>>)

\* user_data[user_id]['projects'].append({'name': text})
append_project(data, text) ==
    Put(data, "projects", Append(data.projects, [name |-> text]))

\* mutant: the first project is written instead of the last
set_first_project(data, key, text) ==
    Put(data, "projects", [data.projects EXCEPT ![1] = Put(@, key, text)])

\* project = user_data[user_id]['projects'][-1]; project[key] = text
set_last_project(data, key, text) ==
    Put(data, "projects",
        [data.projects EXCEPT ![Len(data.projects)] = Put(@, key, text)])

get_project_name(u, text) ==
    IF u \in DOMAIN user_data
    THEN Answered(u, text, append_project(user_data[u], text),
                  "Please enter the link to your project:",
                  PROJECT_LINK)
    ELSE Raised

get_project_link(u, text) ==
    IF u \in DOMAIN user_data /\ Len(user_data[u].projects) > 0
    THEN Answered(u, text, set_last_project(user_data[u], "link", text),
                  "Please provide documentation or a description of your project:",
                  PROJECT_DOC)
    ELSE Raised

get_project_doc(u, text) ==
    IF u \in DOMAIN user_data /\ Len(user_data[u].projects) > 0
    THEN Answered(u, text, set_last_project(user_data[u], "doc", text),
                  "Would you like to add another project? (yes/no)",
                  ANOTHER_PROJECT)
    ELSE Raised

\* mutant: the answer is compared as it was typed
is_yes_as_typed(text) == text = <<"y", "e", "s">>

\* ask_another_project, main.py:165-167: the comparison of the answer
is_yes(text) == lower(text) = <<"y", "e", "s">>

\* ask_another_project, the branch that asks for the next project
another_project(u) ==
    /\ reply_text(u, "Please enter the name of your next project:")
    /\ Transition(u, PROJECT_NAME)
    /\ yes_count' = [yes_count EXCEPT ![u] = @ + 1]
    /\ UNCHANGED <<user_data, entered, conv_saves>>
    /\ HandlerFrame

\* ask_another_project, the branch that saves: it enters save_to_sheet
call_save_to_sheet(u) ==
    /\ pc' = "saving"
    /\ retry_count' = 0
    /\ timestamp' = <<>>
    /\ attempts' = 0
    /\ appended' = <<>>
    /\ save_calls' = save_calls + 1
    /\ conv_saves' = [conv_saves EXCEPT ![u] = @ + 1]
    /\ UNCHANGED <<MAX_RETRIES, conversations, user_data, last_reply, sheet, clock,
                   entered, yes_count, bootvars>>

ask_another_project(u, text) ==
    IF is_yes(text) THEN another_project(u) ELSE call_save_to_sheet(u)

\* mutant: the record is left in user_data
cancel_keeps_record(u) ==
    /\ UNCHANGED user_data
    /\ reply_text(u, "The process has been canceled. Have a great day!")
    /\ Transition(u, END)
    /\ entered' = [entered EXCEPT ![u] = <<>>]
    /\ yes_count' = [yes_count EXCEPT ![u] = 0]
    /\ UNCHANGED conv_saves
    /\ HandlerFrame

\* mutant: the whole store is cleared
cancel_clears_store(u) ==
    /\ user_data' = <<>>
    /\ reply_text(u, "The process has been canceled. Have a great day!")
    /\ Transition(u, END)
    /\ entered' = [entered EXCEPT ![u] = <<>>]
    /\ yes_count' = [yes_count EXCEPT ![u] = 0]
    /\ UNCHANGED conv_saves
    /\ HandlerFrame

cancel(u) ==
    /\ user_data' = Pop(user_data, u)
    /\ reply_text(u, "The process has been canceled. Have a great day!")
    /\ Transition(u, END)
    /\ entered' = [entered EXCEPT ![u] = <<>>]
    /\ yes_count' = [yes_count EXCEPT ![u] = 0]
    /\ UNCHANGED conv_saves
    /\ HandlerFrame

(***************************************************************************)
(* save_to_sheet, one step per iteration of its while loop.  It runs       *)
(* inside the handler of `update`; nothing else runs until it returns or   *)
(* raises (it never awaits, and time.sleep blocks the event loop).         *)
(***************************************************************************)
\* datetime.now(): time passes in the calls of the backend and in time.sleep
datetime_now == clock

\* mutant: the link and the doc of the project change places
row_of_swapped(data, project, ts) ==
    <<ts, data.name, data.contact, data.introduction,
      project.name, project.doc, project.link>>

\* main.py:190-198
row_of(data, project, ts) ==
    <<ts, data.name, data.contact, data.introduction,
      project.name, project.link, project.doc>>

\* mutant: the clock is read for every row
rows_of_stamped_each(data, ts) ==
    [i \in 1..Len(data.projects) |->
        row_of(data, data.projects[i], strftime(clock + (i - 1) * AppendSeconds))]

\* the rows one attempt builds, in the order it appends them
rows_of(data, ts) ==
    [i \in 1..Len(data.projects) |-> row_of(data, data.projects[i], ts)]

\* the rows of `rows` as appended by the iteration now beginning
tagged(rows) ==
    [i \in 1..Len(rows) |-> [attempt |-> attempts + 1, row |-> rows[i]]]

SaveFrame ==
    UNCHANGED <<MAX_RETRIES, update, conversations, user_data, last_reply,
                entered, yes_count, save_calls, conv_saves, bootvars>>

\* mutant: the retry test is <=, so that after the last failure the function
\* sleeps and leaves the loop instead of raising
attempt_fails_no_raise(u, j) ==
    LET ts == strftime(datetime_now)
        rows == SubSeq(rows_of(user_data[u], ts), 1, j)
    IN  /\ timestamp' = ts
        /\ attempts' = attempts + 1
        /\ sheet' = sheet \o rows
        /\ appended' = appended \o tagged(rows)
        /\ retry_count' = retry_count + 1
        /\ pc' = "saving"
        /\ clock' = clock + (j + 1) * AppendSeconds + RETRY_DELAY
        /\ SaveFrame

\* mutant: the first failure is raised to the caller
attempt_fails_raises(u, j) ==
    LET ts == strftime(datetime_now)
        rows == SubSeq(rows_of(user_data[u], ts), 1, j)
    IN  /\ timestamp' = ts
        /\ attempts' = attempts + 1
        /\ sheet' = sheet \o rows
        /\ appended' = appended \o tagged(rows)
        /\ retry_count' = retry_count + 1
        /\ pc' = "raised"
        /\ clock' = clock + (j + 1) * AppendSeconds
        /\ SaveFrame

\* one iteration in which self.sheet.append_row fails after j rows were appended
attempt_fails(u, j) ==
    LET ts == strftime(datetime_now)
        rows == SubSeq(rows_of(user_data[u], ts), 1, j)
    IN  /\ timestamp' = ts
        /\ attempts' = attempts + 1
        /\ sheet' = sheet \o rows
        /\ appended' = appended \o tagged(rows)
        /\ retry_count' = retry_count + 1
        /\ IF retry_count + 1 < MAX_RETRIES
           THEN pc' = "saving" /\ clock' = clock + (j + 1) * AppendSeconds + RETRY_DELAY
           ELSE pc' = "raised" /\ clock' = clock + (j + 1) * AppendSeconds
        /\ SaveFrame

\* mutant: the iteration resumes after the rows the previous one appended
attempt_succeeds_resuming(u) ==
    LET ts == strftime(datetime_now)
        done == Cardinality({i \in DOMAIN appended : appended[i].attempt = attempts})
        all == rows_of(user_data[u], ts)
        rows == SubSeq(all, done + 1, Len(all))
    IN  /\ timestamp' = ts
        /\ attempts' = attempts + 1
        /\ sheet' = sheet \o rows
        /\ appended' = appended \o tagged(rows)
        /\ pc' = "returned"
        /\ clock' = clock + Len(rows) * AppendSeconds
        /\ UNCHANGED retry_count
        /\ SaveFrame

\* one iteration in which every row is appended: save_to_sheet returns
attempt_succeeds(u) ==
    LET ts == strftime(datetime_now)
        rows == rows_of(user_data[u], ts)
    IN  /\ timestamp' = ts
        /\ attempts' = attempts + 1
        /\ sheet' = sheet \o rows
        /\ appended' = appended \o tagged(rows)
        /\ pc' = "returned"
        /\ clock' = clock + Len(rows) * AppendSeconds
        /\ UNCHANGED retry_count
        /\ SaveFrame

\* the while condition is false on entry: the function returns without a try
loop_not_entered ==
    /\ pc' = "returned"
    /\ UNCHANGED <<sheet, clock, retry_count, timestamp, attempts, appended>>
    /\ SaveFrame

SaveAttemptOk ==
    /\ pc = "saving"
    /\ IF retry_count < MAX_RETRIES
       THEN attempt_succeeds(update.user_id)
       ELSE loop_not_entered

SaveAttemptFail ==
    /\ pc = "saving"
    /\ retry_count < MAX_RETRIES
    /\ \E j \in 0..(Len(user_data[update.user_id].projects) - 1) :
          attempt_fails(update.user_id, j)

\* mutant: the record is popped after the confirmation only
end_conversation_pop_on_success(u, msg) ==
    /\ reply_text(u, msg)
    /\ user_data' = IF pc = "returned" THEN Pop(user_data, u) ELSE user_data
    /\ Transition(u, END)
    /\ pc' = "polling"
    /\ entered' = [entered EXCEPT ![u] = <<>>]
    /\ yes_count' = [yes_count EXCEPT ![u] = 0]
    /\ UNCHANGED <<MAX_RETRIES, update, sheet, clock, retry_count, timestamp,
                   attempts, appended, save_calls, conv_saves, bootvars>>

\* mutant: the handler returns ANOTHER_PROJECT, asking again
end_conversation_reprompts(u, msg) ==
    /\ reply_text(u, msg)
    /\ user_data' = Pop(user_data, u)
    /\ Transition(u, ANOTHER_PROJECT)
    /\ pc' = "polling"
    /\ entered' = [entered EXCEPT ![u] = <<>>]
    /\ yes_count' = [yes_count EXCEPT ![u] = 0]
    /\ UNCHANGED <<MAX_RETRIES, update, sheet, clock, retry_count, timestamp,
                   attempts, appended, save_calls, conv_saves, bootvars>>

\* ask_another_project after save_to_sheet: the reply, the finally clause, END
end_conversation(u, msg) ==
    /\ reply_text(u, msg)
    /\ user_data' = Pop(user_data, u)
    /\ Transition(u, END)
    /\ pc' = "polling"
    /\ entered' = [entered EXCEPT ![u] = <<>>]
    /\ yes_count' = [yes_count EXCEPT ![u] = 0]
    /\ UNCHANGED <<MAX_RETRIES, update, sheet, clock, retry_count, timestamp,
                   attempts, appended, save_calls, conv_saves, bootvars>>

SaveReturned ==
    /\ pc = "returned"
    /\ end_conversation(update.user_id, "Thank you! Your information has been saved.")

SaveRaised ==
    /\ pc = "raised"
    /\ end_conversation(update.user_id,
          "There was an error saving your information. Please try again later.")

(***************************************************************************)
(* The updates the application processes, one at a time.                   *)
(***************************************************************************)
\* the application takes the next update; updates are processed one at a time
Deliver(u, text) == update' = [user_id |-> u, text |-> text]

OnStart(u) ==
    /\ pc = "polling"
    /\ \E text \in Inputs(u) :
        /\ check_update(u, text) = "start"
        /\ Deliver(u, text)
        /\ start(u)

OnCancel(u) ==
    /\ pc = "polling"
    /\ \E text \in Inputs(u) :
        /\ check_update(u, text) = "cancel"
        /\ Deliver(u, text)
        /\ cancel(u)

\* a text that reaches the handler of state s
OnState(u, text, s) ==
    /\ u \in DOMAIN conversations
    /\ conversations[u] = s
    /\ check_update(u, text) = "state"
    /\ Deliver(u, text)

OnName(u) ==
    /\ pc = "polling"
    /\ \E text \in Inputs(u) : OnState(u, text, NAME) /\ get_name(u, text)

OnContact(u) ==
    /\ pc = "polling"
    /\ \E text \in Inputs(u) : OnState(u, text, CONTACT) /\ get_contact(u, text)

OnIntroduction(u) ==
    /\ pc = "polling"
    /\ \E text \in Inputs(u) :
        OnState(u, text, INTRODUCTION) /\ get_introduction(u, text)

OnProjectName(u) ==
    /\ pc = "polling"
    /\ \E text \in Inputs(u) :
        OnState(u, text, PROJECT_NAME) /\ get_project_name(u, text)

OnProjectLink(u) ==
    /\ pc = "polling"
    /\ \E text \in Inputs(u) :
        OnState(u, text, PROJECT_LINK) /\ get_project_link(u, text)

OnProjectDoc(u) ==
    /\ pc = "polling"
    /\ \E text \in Inputs(u) :
        OnState(u, text, PROJECT_DOC) /\ get_project_doc(u, text)

OnAnotherProject(u) ==
    /\ pc = "polling"
    /\ \E text \in Inputs(u) :
        OnState(u, text, ANOTHER_PROJECT) /\ ask_another_project(u, text)

\* an update no handler takes: /start inside a conversation, /cancel outside
Unhandled(u) ==
    /\ pc = "polling"
    /\ \E text \in Inputs(u) :
        /\ check_update(u, text) = "none"
        /\ Deliver(u, text)
        /\ UNCHANGED <<MAX_RETRIES, pc, conversations, user_data,
                       last_reply, sheet, clock, retry_count, timestamp, attempts,
                       appended, entered, yes_count, save_calls, conv_saves, bootvars>>

Next ==
    \/ Main
    \/ MainExit
    \/ \E u \in Users :
        \/ OnStart(u)
        \/ OnCancel(u)
        \/ OnName(u)
        \/ OnContact(u)
        \/ OnIntroduction(u)
        \/ OnProjectName(u)
        \/ OnProjectLink(u)
        \/ OnProjectDoc(u)
        \/ OnAnotherProject(u)
        \/ Unhandled(u)
    \/ SaveAttemptOk
    \/ SaveAttemptFail
    \/ SaveReturned
    \/ SaveRaised

Spec == Init /\ [][Next]_vars

\* a step of the handler that called save_to_sheet
SaveStep == SaveAttemptOk \/ SaveAttemptFail \/ SaveReturned \/ SaveRaised

\* Every call of append_row returns or raises and time.sleep ends, so the
\* handler that called save_to_sheet goes on until it returns.
FairSpec == Spec /\ WF_vars(SaveStep)

\* the updates and the steps of their handlers
Serve ==
    \/ \E u \in Users :
        \/ OnStart(u)
        \/ OnCancel(u)
        \/ OnName(u)
        \/ OnContact(u)
        \/ OnIntroduction(u)
        \/ OnProjectName(u)
        \/ OnProjectLink(u)
        \/ OnProjectDoc(u)
        \/ OnAnotherProject(u)
        \/ Unhandled(u)
    \/ SaveAttemptOk
    \/ SaveAttemptFail
    \/ SaveReturned
    \/ SaveRaised

\* the program with the startup taken iteration by iteration, the calls of
\* the backend in it failing or not
NextBoot ==
    \/ Construct
    \/ MainExit
    \/ InitOpens
    \/ InitCreates
    \/ InitFailsUnreachable
    \/ InitFailsAfterCreate
    \/ Serve

SpecBoot == Init /\ [][NextBoot]_vars

\* run, main.py:254-281: run_polling has ended and the loop builds a new
\* Application with a new ConversationHandler, whose conversations are empty;
\* the module's user_data is the same dict
Reconnect ==
    /\ pc = "polling"
    /\ conversations' = <<>>
    /\ entered' = [u \in Users |-> <<>>]
    /\ yes_count' = [u \in Users |-> 0]
    /\ UNCHANGED <<MAX_RETRIES, pc, update, user_data, last_reply, sheet, clock,
                   retry_count, timestamp, attempts, appended, save_calls,
                   conv_saves, bootvars>>

\* the program with the reconnect loop of run
NextReconnect ==
    \/ Main
    \/ MainExit
    \/ Serve
    \/ Reconnect

SpecReconnect == Init /\ [][NextReconnect]_vars

\* ask_another_project, main.py:172-179: save_to_sheet returned, the
\* reply_text of the confirmation raised (the transport failed), and the
\* except clause sent the failure message
SavedReplyFails ==
    /\ pc = "returned"
    /\ end_conversation(update.user_id,
          "There was an error saving your information. Please try again later.")

\* ask_another_project, main.py:173-179: the last reply_text raised as well;
\* the finally clause pops the record and the exception leaves the handler,
\* so that ConversationHandler keeps the state ANOTHER_PROJECT
FinalReplyFails ==
    /\ (pc = "returned" \/ pc = "raised")
    /\ user_data' = Pop(user_data, update.user_id)
    /\ pc' = "polling"
    /\ UNCHANGED <<MAX_RETRIES, update, conversations, last_reply, sheet, clock,
                   retry_count, timestamp, attempts, appended, entered, yes_count,
                   save_calls, conv_saves, bootvars>>

\* the program with calls of reply_text that raise at the end of the flow
NextTransport ==
    \/ Main
    \/ MainExit
    \/ Serve
    \/ SavedReplyFails
    \/ FinalReplyFails

SpecTransport == Init /\ [][NextTransport]_vars

(***************************************************************************)
(* Properties.                                                             *)
(***************************************************************************)
AskName == "Please enter your full name:"
Saved == "Thank you! Your information has been saved."
SaveError == "There was an error saving your information. Please try again later."
Canceled == "The process has been canceled. Have a great day!"

\* save_to_sheet has been called by the handler of `update` and the handler
\* has not finished
InSave == pc \in {"saving", "returned", "raised"}

\* the project entries that the answers e of one conversation describe: after
\* name, contact and introduction, one entry per three answers
PassesOf(e) ==
    [i \in 1..((Len(e) - 3) \div 3) |->
        [name |-> e[3 * i + 1], link |-> e[3 * i + 2], doc |-> e[3 * i + 3]]]

\* C1: the record handed to save_to_sheet holds exactly N+1 project entries
\* when N affirmative repeat answers were given, each entry made of the three
\* answers of its pass through the project questions, in the order of the
\* passes.
C1_RecordHoldsEveryPass ==
    InSave =>
        LET u == update.user_id IN
        /\ Len(entered[u]) = 3 + 3 * (yes_count[u] + 1)
        /\ Len(user_data[u].projects) = yes_count[u] + 1
        /\ user_data[u].projects = PassesOf(entered[u])

\* save_to_sheet is entered with the record of two passes (N = 1)
C1_Witness ==
    /\ pc = "saving"
    /\ attempts = 0
    /\ yes_count[update.user_id] = 1
    /\ Len(user_data[update.user_id].projects) = 2

C3_StartAlwaysRestarts ==
    \A u \in Users :
        (pc = "polling" /\ update = [user_id |-> u, text |-> StartCmd]) =>
            /\ u \in DOMAIN conversations
            /\ conversations[u] = NAME
            /\ u \in DOMAIN user_data
            /\ user_data[u] = [projects |-> <<>>]

\* C3: /start sent inside a conversation is taken by no handler
C3_Witness ==
    \E u \in Users :
        /\ pc = "polling"
        /\ update = [user_id |-> u, text |-> StartCmd]
        /\ u \in DOMAIN conversations
        /\ conversations[u] = CONTACT
        /\ "name" \in DOMAIN user_data[u]

\* C4: /cancel sent inside a conversation removes the user's record and ends
\* the conversation without a call of save_to_sheet or a row appended; /start
\* sent outside a conversation (so also after a cancel) begins a record with
\* no answer and no project.
C4_CancelDiscardsRecord ==
    [][\A u \in Users :
        /\ (/\ pc = "polling"
            /\ u \in DOMAIN conversations
            /\ update' = [user_id |-> u, text |-> CancelCmd]) =>
                /\ u \notin DOMAIN user_data'
                /\ u \notin DOMAIN conversations'
                /\ last_reply'[u] = Canceled
                /\ pc' = "polling"
                /\ save_calls' = save_calls
                /\ sheet' = sheet
        /\ (/\ pc = "polling"
            /\ u \notin DOMAIN conversations
            /\ update' = [user_id |-> u, text |-> StartCmd]) =>
                /\ u \in DOMAIN user_data'
                /\ user_data'[u] = [projects |-> <<>>]
                /\ u \in DOMAIN conversations'
                /\ conversations'[u] = NAME
      ]_vars

\* a conversation was cancelled while another user's conversation goes on
C4_Witness ==
    \E u \in Users :
        /\ update = [user_id |-> u, text |-> CancelCmd]
        /\ last_reply[u] = Canceled
        /\ u \notin DOMAIN user_data
        /\ u \notin DOMAIN conversations
        /\ \E v \in Users \ {u} : v \in DOMAIN user_data

\* the rows of the sheet below the header
DataRows == SubSeq(sheet, 2, Len(sheet))

\* C5: when save_to_sheet returns from its first iteration, the sheet has
\* received exactly one row per project of the record, in the order of the
\* projects, row i being [timestamp, name, contact, introduction, name, link
\* and doc of project i]; no project, no row.
C5_OneRowPerProject ==
    (pc = "returned" /\ attempts = 1) =>
        LET d == user_data[update.user_id] IN
        /\ Len(DataRows) = Len(d.projects)
        /\ \A i \in 1..Len(d.projects) :
              DataRows[i] = <<timestamp, d.name, d.contact, d.introduction,
                              d.projects[i].name, d.projects[i].link,
                              d.projects[i].doc>>

\* the first iteration appended the rows of two projects
C5_Witness ==
    /\ pc = "returned"
    /\ attempts = 1
    /\ Len(user_data[update.user_id].projects) = 2
    /\ Len(sheet) = 3

\* C6 as claimed: all rows appended during one call of save_to_sheet, over
\* all of its iterations, carry the same timestamp.
C6_OneTimestampPerCall ==
    \A i, j \in DOMAIN appended : appended[i].row[1] = appended[j].row[1]

\* C6 as amended: the timestamp is read once in each iteration of the loop:
\* the rows appended by one iteration all carry the timestamp read before its
\* first append_row (rows appended by different iterations of one call need
\* not agree).
C6_OneTimestampPerAttempt ==
    /\ \A i, j \in DOMAIN appended :
          appended[i].attempt = appended[j].attempt =>
              appended[i].row[1] = appended[j].row[1]
    /\ \A i \in DOMAIN appended :
          appended[i].attempt = attempts => appended[i].row[1] = timestamp
    /\ DataRows = [i \in DOMAIN appended |-> appended[i].row]

\* an iteration appended two rows after an earlier iteration had appended one
\* with another timestamp
C6_Witness ==
    /\ Len(appended) = 3
    /\ appended[1].attempt = 1
    /\ appended[2].attempt = 2
    /\ appended[3].attempt = 2
    /\ appended[1].row[1] # appended[2].row[1]

\* the rows that the iteration numbered n of the current call appended
RowsOfAttempt(n) ==
    LET idx == {i \in DOMAIN appended : appended[i].attempt = n}
        first == CHOOSE i \in idx : \A k \in idx : i <= k
    IN  IF idx = {} THEN <<>> ELSE [i \in 1..Cardinality(idx) |-> appended[first + i - 1].row]

\* the rows of the record of user u, stamped ts, written out column by column
ExpectedRows(u, ts) ==
    LET d == user_data[u] IN
    [i \in 1..Len(d.projects) |->
        <<ts, d.name, d.contact, d.introduction,
          d.projects[i].name, d.projects[i].link, d.projects[i].doc>>]

\* C7: with MAX_RETRIES >= 2, a failure in the first iteration is followed by
\* a second iteration (it is not raised), and when the second iteration meets
\* no failure save_to_sheet returns normally having made 2 iterations, the
\* second of which appended the row of every project; no call makes more than
\* MAX_RETRIES iterations.
C7_SecondAttemptCompletes ==
    /\ (InSave /\ MAX_RETRIES >= 2 /\ attempts = 1 /\ retry_count = 1) => pc = "saving"
    /\ (pc = "returned" /\ attempts = 2) =>
          /\ MAX_RETRIES >= 2
          /\ retry_count = 1
          /\ RowsOfAttempt(2) = ExpectedRows(update.user_id, timestamp)
          /\ \A i \in 1..Len(user_data[update.user_id].projects) :
                \E r \in 1..Len(DataRows) :
                    SubSeq(DataRows[r], 2, 7) =
                        SubSeq(ExpectedRows(update.user_id, timestamp)[i], 2, 7)
    /\ attempts <= MAX_RETRIES

\* the first iteration failed on the second row, the second appended both
C7_Witness ==
    /\ pc = "returned"
    /\ attempts = 2
    /\ MAX_RETRIES = 2
    /\ Len(appended) = 3

\* C8: save_to_sheet raises only after MAX_RETRIES iterations that all
\* failed; while every iteration so far has failed and fewer than MAX_RETRIES
\* were made it goes on; once it has raised no further iteration is made, and
\* the handler ends; no call makes more than MAX_RETRIES iterations.
C8_RaisesAfterMaxRetries ==
    [][/\ pc' = "raised" => (attempts' = MAX_RETRIES /\ retry_count' = MAX_RETRIES)
       /\ (pc' \in {"saving", "returned", "raised"} /\ attempts' >= 1
             /\ retry_count' = attempts' /\ attempts' < MAX_RETRIES) => pc' = "saving"
       /\ (pc' \in {"saving", "returned", "raised"} /\ attempts' = MAX_RETRIES
             /\ retry_count' = MAX_RETRIES) => pc' = "raised"
       /\ pc = "raised" => (attempts' = attempts /\ sheet' = sheet /\ pc' = "polling")
       /\ attempts' <= MAX_RETRIES
      ]_vars

\* both iterations of a call failed and the error was raised
C8_Witness ==
    /\ pc = "raised"
    /\ MAX_RETRIES = 2
    /\ attempts = 2

\* C9: the step that ends the handler after save_to_sheet removes the user's
\* record and ends the conversation whether save_to_sheet returned or raised,
\* and replies with the failure message when it raised, with the confirmation
\* when it returned.
C9_RecordRemovedOnCompletion ==
    [][(pc = "returned" \/ pc = "raised") =>
          (LET u == update.user_id
           IN  /\ pc' = "polling"
               /\ u \notin DOMAIN user_data'
               /\ u \notin DOMAIN conversations'
               /\ last_reply'[u] = (IF pc = "raised" THEN SaveError ELSE Saved))
      ]_vars

\* the conversation ended with the failure message and the record is gone
C9_Witness ==
    \E u \in Users :
        /\ pc = "polling"
        /\ update.user_id = u
        /\ last_reply[u] = SaveError
        /\ retry_count = MAX_RETRIES
        /\ u \notin DOMAIN user_data
        /\ u \notin DOMAIN conversations

FullEntry == {"name", "link", "doc"}

C12_OneEntryPerPass ==
    [][\A u \in Users :
          /\ (u \in DOMAIN conversations' /\ conversations'[u] = ANOTHER_PROJECT) =>
                /\ u \in DOMAIN user_data'
                /\ Len(user_data'[u].projects) >= 1
                /\ Len(entered'[u]) = 3 + 3 * Len(user_data'[u].projects)
                /\ Len(user_data'[u].projects) = yes_count'[u] + 1
          /\ (u \in DOMAIN user_data /\ u \in DOMAIN user_data') =>
                LET ps == user_data[u].projects
                    qs == user_data'[u].projects
                IN  /\ Len(ps) <= Len(qs)
                    /\ Len(qs) <= Len(ps) + 1
                    /\ \A i \in 1..Len(ps) :
                          \A k \in DOMAIN ps[i] : k \in DOMAIN qs[i] /\ qs[i][k] = ps[i][k]
      ]_vars

\* the second pass has been completed
C12_Witness ==
    \E u \in DOMAIN conversations :
        /\ conversations[u] = ANOTHER_PROJECT
        /\ Len(user_data[u].projects) = 2
        /\ yes_count[u] = 1
        /\ Len(entered[u]) = 9

\* a row without its timestamp
Columns(row) == SubSeq(row, 2, 7)

\* C13: every iteration of save_to_sheet starts from the first project, so
\* the rows an iteration appended before it failed are appended again: when
\* the call returns the sheet holds the k rows of the last iteration and,
\* before them, the rows of the failed ones; after one failure that followed
\* j rows it holds j + k rows, the rows of projects 1..j twice.
C13_RetryDuplicatesRows ==
    (pc = "returned" /\ attempts >= 1) =>
        LET u == update.user_id
            k == Len(user_data[u].projects)
            expected == ExpectedRows(u, timestamp)
            j == Len(RowsOfAttempt(1))
        IN  /\ DataRows = [i \in 1..Len(appended) |-> appended[i].row]
            /\ RowsOfAttempt(attempts) = expected
            /\ \A a \in 1..attempts :
                  /\ Len(RowsOfAttempt(a)) <= k
                  /\ \A i \in 1..Len(RowsOfAttempt(a)) :
                        Columns(RowsOfAttempt(a)[i]) = Columns(expected[i])
            /\ attempts = 2 =>
                  /\ Len(DataRows) = j + k
                  /\ \A i \in 1..k :
                        Cardinality({r \in 1..Len(DataRows) :
                                        Columns(DataRows[r]) = Columns(expected[i])})
                            = (IF i <= j THEN 2 ELSE 1)

\* the first iteration appended the first of two rows and failed, the second
\* appended both: three rows
C13_Witness ==
    /\ pc = "returned"
    /\ attempts = 2
    /\ Len(user_data[update.user_id].projects) = 2
    /\ Len(RowsOfAttempt(1)) = 1
    /\ Len(DataRows) = 3
    /\ Columns(DataRows[1]) = Columns(DataRows[2])

\* C14: a step taken for the update of user u (its handler, and the steps of
\* save_to_sheet inside it) leaves the conversation state and the record of
\* every other user as they were.
C14_OtherUsersUntouched ==
    [][\A v \in Users :
          v # update'.user_id =>
              /\ (v \in DOMAIN conversations') = (v \in DOMAIN conversations)
              /\ v \in DOMAIN conversations => conversations'[v] = conversations[v]
              /\ (v \in DOMAIN user_data') = (v \in DOMAIN user_data)
              /\ v \in DOMAIN user_data => user_data'[v] = user_data[v]
      ]_vars

\* the save of u1 has failed and ended while u2 is in the middle of a record
C14_Witness ==
    /\ update.user_id = "u1"
    /\ pc = "polling"
    /\ last_reply["u1"] = SaveError
    /\ "u2" \in DOMAIN conversations
    /\ conversations["u2"] = PROJECT_LINK
    /\ "u2" \in DOMAIN user_data
    /\ user_data["u2"].name = <<"b", "1">>

\* the application runs a handler for an update of user v
Handles(v) ==
    \/ OnStart(v)
    \/ OnCancel(v)
    \/ OnName(v)
    \/ OnContact(v)
    \/ OnIntroduction(v)
    \/ OnProjectName(v)
    \/ OnProjectLink(v)
    \/ OnProjectDoc(v)
    \/ OnAnotherProject(v)

\* C15 as claimed: while save_to_sheet runs for one user, the wait between
\* failed iterations included, an update of any other user can be handled.
C15_OthersHandledDuringSave ==
    InSave => \A v \in Users \ {update.user_id} : ENABLED Handles(v)

\* save_to_sheet for u1 is in time.sleep after a failed iteration while u2,
\* in the middle of a conversation, has an answer to send
C15_Witness ==
    /\ pc = "saving"
    /\ update.user_id = "u1"
    /\ retry_count = 1
    /\ "u2" \in DOMAIN conversations
    /\ conversations["u2"] = CONTACT

\* the conversation of u has ended after save_to_sheet: one of the two final
\* messages was sent, the record and the conversation are gone
Completed(u) ==
    /\ pc = "polling"
    /\ update.user_id = u
    /\ u \notin DOMAIN conversations
    /\ u \notin DOMAIN user_data
    /\ (last_reply[u] = Saved \/ last_reply[u] = SaveError)

Booted == pc \notin {"main", "init", "exit", "fatal"}

\* C17 as claimed: whenever initialize_google_sheets has returned and it was
\* the one that created the spreadsheet, the first row of the sheet is the
\* header row, whatever failures and retries happened inside it.
C17_CreatedSheetHasHeaders ==
    (Booted /\ created) => (Len(sheet) >= 1 /\ sheet[1] = headers)

\* the spreadsheet was created, the header append failed, the next iteration
\* opened the spreadsheet and returned: the bot polls with an empty sheet
C17_Witness ==
    /\ pc = "polling"
    /\ created
    /\ sheet = <<>>
    /\ init_attempts = 2

\* C18 as claimed: the iterations of initialize_google_sheets made by the
\* process, over every PortfolioBot that __main__ constructs, are at most
\* MAX_RETRIES.
C18_BootstrapAttemptsBounded == init_attempts <= MAX_RETRIES

\* the startup is given up after MAX_RETRIES constructions of MAX_RETRIES
\* iterations each
C18_Witness ==
    /\ pc = "fatal"
    /\ MAX_RETRIES = 2
    /\ main_retry_count = 2
    /\ init_attempts = 4

\* C19 as claimed: in every reachable state, the states after run has
\* rebuilt the application included, a user has a record in user_data exactly
\* when the user has a conversation.
C19_RecordIffConversation ==
    \A u \in Users : (u \in DOMAIN user_data) <=> (u \in DOMAIN conversations)

\* the application was rebuilt while u1 was entering a project: the record
\* is still in user_data and no conversation exists
C19_Witness ==
    /\ pc = "polling"
    /\ conversations = <<>>
    /\ "u1" \in DOMAIN user_data
    /\ Len(user_data["u1"].projects) = 1
    /\ "u2" \notin DOMAIN user_data

\* C20 as claimed: the message sent at the end of the flow matches the
\* outcome of save_to_sheet, whatever the calls of the backend and of the
\* transport do: the confirmation is sent only after a call in which an
\* iteration without failure appended the row of every project, the failure
\* message only after save_to_sheet raised with its iterations used up.
C20_MessageMatchesOutcome ==
    [][(InSave /\ pc' = "polling") =>
          (LET u == update.user_id
           IN  /\ last_reply'[u] = Saved =>
                     /\ pc = "returned"
                     /\ attempts >= 1
                     /\ RowsOfAttempt(attempts) = ExpectedRows(u, timestamp)
               /\ last_reply'[u] = SaveError =>
                     /\ pc = "raised"
                     /\ retry_count = MAX_RETRIES)
      ]_vars

\* the only iteration of save_to_sheet appended the row and returned, and the
\* user was sent the failure message
C20_Witness ==
    /\ pc = "polling"
    /\ update.user_id = "u1"
    /\ last_reply["u1"] = SaveError
    /\ attempts = 1
    /\ retry_count = 0
    /\ Len(appended) = 1
    /\ Len(sheet) = 2

====
